---- MODULE Spec2Model ----
(***************************************************************************)
(* Vehicle_Gantt (src/app.py): a Streamlit application that keeps a table  *)
(* of vehicle reservations in an Excel file inside a git checkout and      *)
(* publishes every change with git add / commit / push.                    *)
(*                                                                         *)
(* Text is modelled as a sequence of one-character strings, so that        *)
(* split, strip, int, lower, join and sorted are computed as Python        *)
(* computes them.  A missing value (None, NaN, an empty cell) of a text    *)
(* column is the empty sequence.  A datetime is a number of minutes:       *)
(* day * 1440 + minute of the day.                                         *)
(*                                                                         *)
(* One step of the model is one Streamlit script run of one browser        *)
(* session: main() from its first line (the startup pull) to the handler   *)
(* of the button that was pressed, st.rerun() included (the run it queues  *)
(* is the session's next step).                                            *)
(***************************************************************************)
EXTENDS Integers, Sequences, FiniteSets, TLC

VARIABLES
    remote,       \* the configured branch on GitHub: its commits, oldest first
    head,         \* per clone: the commits of the local HEAD, oldest first
    tree,         \* per clone: the working tree (the Excel file, the list files)
    dataCache,    \* per process: st.cache_data of load_vehicle_data
    lookupCache,  \* per process: st.cache_data of load_lookup_list, per file
    edited,       \* per session: st.session_state.edited_df
    ranges,       \* per session: st.session_state.bulk_date_ranges
    pending,      \* per session: st.rerun() was called, the next run is queued
    repoDir,      \* per clone: REPO_DIR.is_dir() (app.py:45)
    cloneOf,      \* per session: the process (and its checkout) that serves it
    lastRun,      \* what the last script run did (its button, its messages)
    failures      \* the runs so far in which a git call failed

vars == <<remote, head, tree, dataCache, lookupCache, edited, ranges, pending,
          repoDir, cloneOf, lastRun, failures>>

---------------------------------------------------------------------------
(* Bounds of the model. *)

MaxRows == 2        \* rows a table may hold, one session on one checkout
MaxSharedRows == 1  \* rows a table may hold, two sessions on two checkouts
MaxCommits == 3     \* commits a history may hold
MaxRanges == 1      \* entries of bulk_date_ranges
MaxLines == 4       \* lines a list file may hold
MaxFailures == 1    \* runs in which the network or git makes a call fail
MaxDay == 8         \* the last day a bulk create by weekdays may name
MaxBulkRows == 4    \* rows a table may hold under bulk creates by weekdays
MaxEditRows == 4    \* rows a table may hold under saves of the editor

Clones == {"c1", "c2"}
Sessions == {"s1", "s2"}
Stamps == {0, 1}    \* the second at which openpyxl stamps a saved workbook

---------------------------------------------------------------------------
(* Text. *)

\* The characters the model uses, in code point order.
Alphabet ==
    <<" ", "'", ",", "-", "0", "1", "2", "3", "4", "5", "6", "7", "8", "9",
      "A", "B", "C", "R", "T", "V", "[", "]", "a", "b", "c", "d", "e", "f",
      "i", "k", "l", "m", "n", "o", "r", "s", "u", "v">>

ord(ch) == CHOOSE i \in 1..Len(Alphabet) : Alphabet[i] = ch

Digits == {"0", "1", "2", "3", "4", "5", "6", "7", "8", "9"}

DigitValue(ch) == ord(ch) - ord("0")

\* str.lower() on one character.
LowerChar(ch) ==
    CASE ch = "A" -> "a"
      [] ch = "B" -> "b"
      [] ch = "C" -> "c"
      [] ch = "R" -> "r"
      [] ch = "T" -> "t"
      [] ch = "V" -> "v"
      [] OTHER -> ch

\* str.lower()
Lower(str) == [i \in 1..Len(str) |-> LowerChar(str[i])]

\* Python's < on two str: by code point, a proper prefix first.
RECURSIVE StrLess(_, _)
StrLess(a, b) ==
    IF b = <<>> THEN FALSE
    ELSE IF a = <<>> THEN TRUE
    ELSE IF a[1] # b[1] THEN ord(a[1]) < ord(b[1])
    ELSE StrLess(Tail(a), Tail(b))

\* str.strip(): leading and trailing blanks removed.
RECURSIVE LStrip(_)
LStrip(str) ==
    IF str # <<>> /\ str[1] = " " THEN LStrip(Tail(str)) ELSE str

RECURSIVE RStrip(_)
RStrip(str) ==
    IF str # <<>> /\ str[Len(str)] = " "
    THEN RStrip(SubSeq(str, 1, Len(str) - 1))
    ELSE str

Strip(str) == LStrip(RStrip(str))

\* "-" in str
HasDash(str) == \E i \in 1..Len(str) : str[i] = "-"

\* str.split("-")[0]: the text before the first "-", all of it without one.
SplitDashFirst(str) ==
    IF HasDash(str)
    THEN SubSeq(str, 1, (CHOOSE i \in 1..Len(str) :
                            /\ str[i] = "-"
                            /\ \A j \in 1..(i - 1) : str[j] # "-") - 1)
    ELSE str

\* int(str) raises ValueError unless str is a run of digits.
IntParses(str) == str # <<>> /\ \A i \in 1..Len(str) : str[i] \in Digits

RECURSIVE IntOf(_)
IntOf(str) ==
    IF str = <<>> THEN 0
    ELSE IntOf(SubSeq(str, 1, Len(str) - 1)) * 10 + DigitValue(str[Len(str)])

\* ", ".join(names)
RECURSIVE JoinCommaSpace(_)
JoinCommaSpace(names) ==
    IF names = <<>> THEN <<>>
    ELSE IF Len(names) = 1 THEN names[1]
    ELSE names[1] \o <<",", " ">> \o JoinCommaSpace(Tail(names))

\* repr of each name of a list, with the separators of str(list).
RECURSIVE ReprItems(_)
ReprItems(names) ==
    IF names = <<>> THEN <<>>
    ELSE IF Len(names) = 1 THEN <<"'">> \o names[1] \o <<"'">>
    ELSE <<"'">> \o names[1] \o <<"'", ",", " ">> \o ReprItems(Tail(names))

\* str(list): what pandas writes to a cell that holds a Python list.
PyListRepr(names) == <<"[">> \o ReprItems(names) \o <<"]">>

\* The text "nan": str(float("nan")).
NanText == <<"n", "a", "n">>

\* The values of the forms.
TypeTruck == <<"1", "2", " ", "-", " ", "T", "r", "u", "c", "k">>
TypeVan == <<"V", "a", "n">>
TypeBare == <<"7">>
TypeDashed == <<"A", "-", "1">>
Alice == <<"A", "l", "i", "c", "e">>
Bob == <<"B", "o", "b">>
Ann == <<"A", "n", "n">>
AnnLower == <<"a", "n", "n">>
NameReserved == <<"R", "e", "s", "e", "r", "v", "e", "d">>
NoteText == <<"o", "k">>
None == <<>>

---------------------------------------------------------------------------
(* Dates. *)

MinutesPerDay == 24 * 60

\* pd.to_datetime(date): midnight of that day.
to_datetime(day) == day * MinutesPerDay

DayOf(ts) == ts \div MinutesPerDay

\* datetime.weekday(): day 0 of the model is a Monday.
weekday(day) == day % 7

\* A datetime left at the time of day it has.
KeepTime(ts) == ts

\* dt.replace(hour=23, minute=59, second=0, microsecond=0)
set_time_to_2359(ts) == DayOf(ts) * MinutesPerDay + (23 * 60 + 59)

---------------------------------------------------------------------------
(* The reservation table: a DataFrame is the sequence of its rows, in      *)
(* index order.  Every frame the handlers keep has a RangeIndex (read_excel,*)
(* reset_index, ignore_index), so a row's index label is its position - 1. *)

\* str(status)
StatusText(status) ==
    IF status = "Reserved" THEN <<"R", "e", "s", "e", "r", "v", "e", "d">>
    ELSE <<"C", "o", "n", "f", "i", "r", "m", "e", "d">>

\* A row's "Unique ID" when the editor added the row: NaN.
NaNId == 0 - 1

Statuses == {"Confirmed", "Reserved"}

\* What identifies a reservation whatever its id, its return time of day and
\* the text of its free columns.
RowKey(r) ==
    <<r.Type, r.AssignedTo, r.Status, DayOf(r.CheckoutDate), DayOf(r.ReturnDate)>>

Keys(df) == {RowKey(df[i]) : i \in 1..Len(df)}

Ids(df) == [i \in 1..Len(df) |-> df[i].UniqueID]

\* A frame whose "Unique ID" column is left as it is.
KeepIds(df) == df

\* updated_df["Unique ID"] = updated_df.index
ReassignIds(df) == [i \in 1..Len(df) |-> [df[i] EXCEPT !.UniqueID = i - 1]]

\* The rows of df at the positions where keep holds, in order
\* (boolean indexing, drop).
RECURSIVE SelectRows(_, _)
SelectRows(df, keep) ==
    IF df = <<>> THEN <<>>
    ELSE LET rest == SelectRows(SubSeq(df, 1, Len(df) - 1), keep)
             last == df[Len(df)]
         IN IF keep[Len(df)] THEN Append(rest, last) ELSE rest

\* Insert r into the frame sorted by "Unique ID", NaN last.
RECURSIVE InsertById(_, _)
InsertById(sorted, r) ==
    IF sorted = <<>> THEN <<r>>
    ELSE LET h == sorted[1]
         IN IF r.UniqueID # NaNId /\ (h.UniqueID = NaNId \/ r.UniqueID < h.UniqueID)
            THEN <<r>> \o sorted
            ELSE <<h>> \o InsertById(Tail(sorted), r)

\* df.sort_values(by="Unique ID")
RECURSIVE sort_values(_)
sort_values(df) ==
    IF df = <<>> THEN <<>>
    ELSE InsertById(sort_values(SubSeq(df, 1, Len(df) - 1)), df[Len(df)])

\* astype(str).fillna(''): astype(str) turns the NaN of an empty cell into
\* the text "nan", and fillna finds nothing left to fill.
astype_str(cell) == IF cell = <<>> THEN NanText ELSE cell

\* df.to_excel(EXCEL_FILE_PATH, index=False, engine="openpyxl"): the rows as
\* the frame holds them, and the second of the save that openpyxl writes into
\* the workbook's properties (the bytes of two saves of the same rows differ
\* when the second differs).
to_excel(df, stamp) == [rows |-> df, stamp |-> stamp]

\* load_vehicle_data without its cache.
load_vehicle_data(file) ==
    LET raw == file.rows
        cleaned == [i \in 1..Len(raw) |->
                      [raw[i] EXCEPT !.ReturnDate = set_time_to_2359(@),
                                     !.Notes = astype_str(@),
                                     !.AuthorizedDrivers = astype_str(@)]]
        ided == IF \E i \in 1..Len(cleaned) : cleaned[i].UniqueID = NaNId
                THEN ReassignIds(cleaned)
                ELSE cleaned
    IN sort_values(ided)

---------------------------------------------------------------------------
(* The lookup lists: a text file is the sequence of its lines             *)
(* (text.split("\n")).                                                     *)

ASSIGNED_TO_LIST_PATH == "assigned_to_list.txt"
DRIVERS_LIST_PATH == "authorized_drivers_list.txt"
ListPaths == {ASSIGNED_TO_LIST_PATH, DRIVERS_LIST_PATH}

\* type_list.txt: the application never writes it.
TYPE_LIST == <<TypeTruck, TypeBare, TypeDashed, TypeVan>>

RECURSIVE InsertSorted(_, _)
InsertSorted(sorted, x) ==
    IF sorted = <<>> THEN <<x>>
    ELSE IF StrLess(x, sorted[1]) THEN <<x>> \o sorted
    ELSE <<sorted[1]>> \o InsertSorted(Tail(sorted), x)

\* sorted(list of str)
RECURSIVE Sorted(_)
Sorted(list) ==
    IF list = <<>> THEN <<>>
    ELSE InsertSorted(Sorted(SubSeq(list, 1, Len(list) - 1)), list[Len(list)])

\* [line.strip() for line in f if line.strip()]
RECURSIVE StrippedLines(_)
StrippedLines(lines) ==
    IF lines = <<>> THEN <<>>
    ELSE LET rest == StrippedLines(SubSeq(lines, 1, Len(lines) - 1))
             l == Strip(lines[Len(lines)])
         IN IF l # <<>> THEN Append(rest, l) ELSE rest

\* load_lookup_list without its cache.
load_lookup_list(lines) == Sorted(StrippedLines(lines))

Elems(list) == {list[i] : i \in 1..Len(list)}

---------------------------------------------------------------------------
(* git.  A history is the sequence of its commits, oldest first; a commit  *)
(* holds the tree it recorded and the clone that made it.                  *)

IsPrefix(a, b) == Len(a) <= Len(b) /\ SubSeq(b, 1, Len(a)) = a

Tip(history) == history[Len(history)]

\* What the subprocess calls of one publish may do: all of them succeed, or
\* the named one exits non-zero (check=True raises CalledProcessError).
GitOutcomes == {"ok", "add_fails", "commit_fails", "push_fails"}

\* The publish without its status check: it commits and pushes whether or
\* not the working tree differs from the last commit.
push_without_status_check(c, h, t, r, outcome) ==
    IF outcome = "add_fails"
    THEN [head |-> h, remote |-> r,
          ev |-> <<"git add", "st.error push", "st.warning saved locally">>]
    ELSE LET h2 == Append(h, [tree |-> t, by |-> c])
         IN IF outcome # "ok" \/ ~IsPrefix(r, h2)
            THEN [head |-> h2, remote |-> r,
                  ev |-> <<"git add", "git status", "git commit", "git push",
                           "st.error push", "st.warning saved locally">>]
            ELSE [head |-> h2, remote |-> h2,
                  ev |-> <<"git add", "git status", "git commit", "git push",
                           "st.success pushed">>]

\* push_changes_to_github, run in clone c whose HEAD is h and whose working
\* tree is t, the remote branch being r: the HEAD, the remote branch and the
\* calls and messages of the publish, in order.
push_changes_to_github(c, h, t, r, outcome) ==
    IF outcome = "add_fails"
    THEN [head |-> h, remote |-> r,
          ev |-> <<"git add", "st.error push", "st.warning saved locally">>]
    ELSE IF t = Tip(h).tree
    THEN [head |-> h, remote |-> r,
          ev |-> <<"git add", "git status", "st.info no changes">>]
    ELSE IF outcome = "commit_fails"
    THEN [head |-> h, remote |-> r,
          ev |-> <<"git add", "git status", "git commit",
                   "st.error push", "st.warning saved locally">>]
    ELSE LET h2 == Append(h, [tree |-> t, by |-> c])
         IN IF outcome = "push_fails" \/ ~IsPrefix(r, h2)
            THEN [head |-> h2, remote |-> r,
                  ev |-> <<"git add", "git status", "git commit", "git push",
                           "st.error push", "st.warning saved locally">>]
            ELSE [head |-> h2, remote |-> h2,
                  ev |-> <<"git add", "git status", "git commit", "git push",
                           "st.success pushed">>]

\* clone_or_pull_repo in clone c: nothing without the repo directory; else
\* git fetch and git reset --hard origin/<branch>, or st.stop() when the
\* fetch fails.
clone_or_pull_repo(c, fetchOk) ==
    IF ~repoDir[c]
    THEN [stopped |-> FALSE, head |-> head[c], tree |-> tree[c], ev |-> <<>>]
    ELSE IF ~fetchOk
    THEN [stopped |-> TRUE, head |-> head[c], tree |-> tree[c],
          ev |-> <<"git fetch", "st.error pull", "st.stop">>]
    ELSE [stopped |-> FALSE, head |-> remote, tree |-> Tip(remote).tree,
          ev |-> <<"git fetch", "git reset">>]

---------------------------------------------------------------------------
(* The chart. *)

\* sub in text
Contains(text, sub) ==
    \E i \in 0..(Len(text) - Len(sub)) : SubSeq(text, i + 1, i + Len(sub)) = sub

\* The position of the first row of df whose column holds the value
\* (the order of df[col].unique()).
FirstRow(df, col, val) ==
    CHOOSE i \in 1..Len(df) : df[i][col] = val /\ \A j \in 1..(i - 1) : df[j][col] # val

\* The traces of px.timeline(df, color="Assigned to", pattern_shape="Status"):
\* one per pair of an assignee and a status that a row holds, named
\* "<assignee>, <status>", ordered by the first appearance of the assignee
\* and then of the status.
TracePairs(df) == {<<df[i].AssignedTo, df[i].Status>> : i \in 1..Len(df)}

TraceBefore(df, p, q) ==
    \/ FirstRow(df, "AssignedTo", p[1]) < FirstRow(df, "AssignedTo", q[1])
    \/ /\ p[1] = q[1]
       /\ FirstRow(df, "Status", p[2]) < FirstRow(df, "Status", q[2])

RECURSIVE TimelineTraces(_, _)
TimelineTraces(df, pairs) ==
    IF pairs = {} THEN <<>>
    ELSE LET p == CHOOSE x \in pairs : \A y \in pairs \ {x} : TraceBefore(df, x, y)
         IN <<[name |-> p[1] \o <<",", " ">> \o StatusText(p[2]),
               assigned |-> p[1], status |-> p[2]]>>
            \o TimelineTraces(df, pairs \ {p})

\* key=lambda t: 0 if "Reserved" in t.name else 1
TraceKey(t) == IF Contains(t.name, StatusText("Reserved")) THEN 0 ELSE 1

\* sorted(fig.data, key=...): a stable sort, the traces of key 0 in their
\* order and then those of key 1.
SortedTraces(data) ==
    LET IsFirst(t) == TraceKey(t) = 0
        IsLast(t) == TraceKey(t) = 1
    IN SelectSeq(data, IsFirst) \o SelectSeq(data, IsLast)

\* generate_gantt_chart(df, ...): fig.data, the traces in drawing order
\* (a later trace is drawn over an earlier one).
generate_gantt_chart(df) == SortedTraces(TimelineTraces(df, TracePairs(df)))

---------------------------------------------------------------------------
(* One script run. *)

NoFrame == [has |-> FALSE, df |-> <<>>]
NoData == [hit |-> FALSE, df |-> <<>>]
NoList == [hit |-> FALSE, list |-> <<>>]
NoLists == [p \in ListPaths |-> NoList]

\* The first lines of main() and of display_management_interface, for a
\* session that has typed the passcode: the startup pull, the cached load of
\* the table, the session's snapshot if it has none, the cached lists of the
\* forms.  A run the pull stopped has done nothing else.
RunStart(s, fetchOk) ==
    LET c == cloneOf[s]
        pulled == clone_or_pull_repo(c, fetchOk)
        df == IF dataCache[c].hit THEN dataCache[c].df
              ELSE load_vehicle_data(pulled.tree.xlsx)
    IN IF pulled.stopped
       THEN [stopped |-> TRUE, head |-> head[c], tree |-> tree[c],
             data |-> dataCache[c], lookup |-> lookupCache[c],
             edited |-> edited[s], ev |-> pulled.ev]
       ELSE [stopped |-> FALSE, head |-> pulled.head, tree |-> pulled.tree,
             data |-> [hit |-> TRUE, df |-> df],
             lookup |-> [p \in ListPaths |->
                           IF lookupCache[c][p].hit THEN lookupCache[c][p]
                           ELSE [hit |-> TRUE,
                                 list |-> load_lookup_list(pulled.tree.lists[p])]],
             edited |-> IF edited[s].has THEN edited[s]
                        ELSE [has |-> TRUE, df |-> df],
             ev |-> pulled.ev]

\* The record of a run: the session, the button, the calls and messages in
\* order, whether the button's handler wrote the table or a list and then
\* the files as it wrote them.  A delete also records the entry or the day
\* it was given, the number of rows of the session's frame when it started
\* and the number it reports as deleted; a bulk create by weekdays records
\* the dates and the weekdays of its form; a run that only set the filters
\* of tab 3 records them and the frame the editor was given; a save of the
\* editor records these too, with the ids of the rows removed in the editor,
\* the id of the row edited and the number of rows added.
RunRecord(s, op, ev, mutated, wrote, info) ==
    [s |-> s, op |-> op, ev |-> ev, mutated |-> mutated, wrote |-> wrote,
     info |-> info]

NoInfo == [entry |-> NaNId, cutoff |-> 0, rows_before |-> 0, reported |-> 0, bulk_start |-> 0, bulk_end |-> 0, bulk_weekdays |-> {}, filter_type |-> [all |-> TRUE, vals |-> {}], filter_assigned |-> [all |-> TRUE, vals |-> {}], filter_status |-> "All", view |-> <<>>, removed |-> {}, edit_id |-> NaNId, added |-> 0]

NoFiles == [xlsx |-> to_excel(<<>>, 0), lists |-> [p \in ListPaths |-> <<>>]]

PlainRun(s, op, ev) == RunRecord(s, op, ev, FALSE, NoFiles, NoInfo)

\* A git call of the run exited with an error (CalledProcessError).
Failed(ev) ==
    \E i \in 1..Len(ev) : ev[i] \in {"st.error pull", "st.error push"}

\* The state a run of session s leaves.
Finish(s, h, t, r, data, lookup, ed, rg, pend, run) ==
    LET c == cloneOf[s]
    IN /\ remote' = r
       /\ head' = [head EXCEPT ![c] = h]
       /\ tree' = [tree EXCEPT ![c] = t]
       /\ dataCache' = [dataCache EXCEPT ![c] = data]
       /\ lookupCache' = [lookupCache EXCEPT ![c] = lookup]
       /\ edited' = [edited EXCEPT ![s] = ed]
       /\ ranges' = [ranges EXCEPT ![s] = rg]
       /\ pending' = [pending EXCEPT ![s] = pend]
       /\ lastRun' = run
       /\ failures' = IF Failed(run.ev) THEN failures + 1 ELSE failures
       /\ UNCHANGED <<repoDir, cloneOf>>

\* A run that changes neither a file nor the session beyond its first lines
\* (no button, a button whose handler only shows a message, a stopped run).
FinishPlain(s, W, op, ev) ==
    Finish(s, W.head, W.tree, remote, W.data, W.lookup, W.edited, ranges[s],
           FALSE, PlainRun(s, op, W.ev \o ev))

\* A save that puts the file back as it was when the publish fails.
SaveAndRollBack(c, h, t, r, df, stamp, outcome) ==
    LET t2 == [t EXCEPT !.xlsx = to_excel(df, stamp)]
        pub == push_changes_to_github(c, h, t2, r, outcome)
        failed == \E i \in 1..Len(pub.ev) : pub.ev[i] = "st.error push"
    IN [tree |-> IF failed THEN t ELSE t2, head |-> pub.head, remote |-> pub.remote,
        ev |-> <<"to_excel">> \o pub.ev]

\* df.to_excel(...) and then push_changes_to_github(...), as every handler
\* of the table calls them in this order: the working tree, the HEAD, the
\* remote branch and the calls in order.
SaveAndPush(c, h, t, r, df, stamp, outcome) ==
    LET t2 == [t EXCEPT !.xlsx = to_excel(df, stamp)]
        pub == push_changes_to_github(c, h, t2, r, outcome)
    IN [tree |-> t2, head |-> pub.head, remote |-> pub.remote,
        ev |-> <<"to_excel">> \o pub.ev]

\* The last lines of a handler that wrote the table df: the file, the
\* publish, st.cache_data.clear(), the session's snapshot (read back from
\* the file, which fills the cache again, or for the editor the frame it
\* wrote), st.rerun().
FinishSave(s, W, op, df, stamp, outcome, msg, reload, rg, info) ==
    \E sp \in {SaveAndPush(cloneOf[s], W.head, W.tree, remote, df, stamp, outcome)} :
    \E back \in {load_vehicle_data(sp.tree.xlsx)} :
       Finish(s, sp.head, sp.tree, sp.remote,
              IF reload THEN [hit |-> TRUE, df |-> back] ELSE NoData,
              NoLists,
              [has |-> TRUE, df |-> IF reload THEN back ELSE df],
              rg, TRUE,
              RunRecord(s, op, W.ev \o sp.ev \o msg, TRUE,
                        [W.tree EXCEPT !.xlsx = to_excel(df, stamp)], info))

\* sorted(df['Type'].unique()) and sorted(df['Assigned to'].unique()), the
\* first lines of tab 3, raise TypeError when a column mixes text with a
\* missing value; the script ends there, before the editor and tab 4.
Tab3Renders(df) ==
    /\ ~(\E i, j \in 1..Len(df) : df[i].Type = None /\ df[j].Type # None)
    /\ ~(\E i, j \in 1..Len(df) : df[i].AssignedTo = None /\ df[j].AssignedTo # None)

\* A run with no button pressed: the queued rerun, or a widget touched.
Rerun(s, fetchOk) ==
    \E W \in {RunStart(s, fetchOk)} :
       FinishPlain(s, W, "rerun",
                   IF ~W.stopped /\ ~Tab3Renders(W.edited.df)
                   THEN <<"TypeError">> ELSE <<>>)

---------------------------------------------------------------------------
(* tab1: create a single entry. *)

\* int(type.split("-")[0].strip()) if type else 0, 0 when int() raises.
VehicleNumberSingle(type) ==
    IF type = None THEN 0
    ELSE IF IntParses(Strip(SplitDashFirst(type)))
    THEN IntOf(Strip(SplitDashFirst(type)))
    ELSE 0

\* The row of the form "new_entry_form".
NewEntry(f) ==
    [UniqueID |-> NaNId,
     Type |-> f.Type,
     VehicleNum |-> VehicleNumberSingle(f.Type),
     AssignedTo |-> f.AssignedTo,
     Status |-> f.Status,
     CheckoutDate |-> to_datetime(f.Checkout),
     ReturnDate |-> set_time_to_2359(to_datetime(f.Return)),
     AuthorizedDrivers |-> PyListRepr(f.Drivers),
     Notes |-> f.Notes]

\* What the selectors of a form can hold in a run: a type of the type list
\* or nothing, an assignee of the cached list or nothing, drivers of the
\* cached list.
Selectable(W, f) ==
    /\ f.Type \in Elems(TYPE_LIST) \cup {None}
    /\ f.AssignedTo \in Elems(W.lookup[ASSIGNED_TO_LIST_PATH].list) \cup {None}
    /\ Elems(f.Drivers) \subseteq Elems(W.lookup[DRIVERS_LIST_PATH].list)

\* "Add New Entry and Push"
CreateEntry(s, f, maxRows, fetchOk, stamp, outcome) ==
    /\ edited[s].has /\ ~pending[s]
    /\ \E W \in {RunStart(s, fetchOk)} :
       \E updated_df \in {ReassignIds(Append(W.edited.df, NewEntry(f)))} :
          IF W.stopped
          THEN FinishPlain(s, W, "create", <<>>)
          ELSE /\ Selectable(W, f)
               /\ Len(W.edited.df) < maxRows
               /\ Len(W.head) < MaxCommits
               /\ FinishSave(s, W, "create", updated_df, stamp, outcome,
                             <<"st.success added and pushed">>, TRUE, ranges[s], NoInfo)

---------------------------------------------------------------------------
(* tab_bulk: bulk create. *)

\* int(type.split("-")[0].strip()) if type and "-" in type else 0; the
\* int() of this expression is not guarded, so a type with a "-" whose
\* first part is no number raises ValueError out of the handler.
VehicleNumberBulkRaises(type) ==
    type # None /\ HasDash(type) /\ ~IntParses(Strip(SplitDashFirst(type)))

VehicleNumberBulk(type) ==
    IF type # None /\ HasDash(type)
    THEN IntOf(Strip(SplitDashFirst(type)))
    ELSE 0

\* One entry of a bulk create, from start to end (datetimes at midnight).
BulkEntry(f, start, end) ==
    [UniqueID |-> NaNId,
     Type |-> f.Type,
     VehicleNum |-> VehicleNumberBulk(f.Type),
     AssignedTo |-> f.AssignedTo,
     Status |-> f.Status,
     CheckoutDate |-> start,
     ReturnDate |-> set_time_to_2359(set_time_to_2359(end)),
     AuthorizedDrivers |-> JoinCommaSpace(f.Drivers),
     Notes |-> f.Notes]

\* [d for d in all_dates if d.weekday() in bulk_weekdays], as days.
RECURSIVE FilteredDates(_, _, _)
FilteredDates(start, end, weekdays) ==
    IF end < start THEN <<>>
    ELSE LET rest == FilteredDates(start, end - 1, weekdays)
         IN IF weekday(end) \in weekdays THEN Append(rest, end) ELSE rest

\* The loop that groups consecutive dates: the ranges closed so far with
\* the open range (current_start, current_end) after the dates d[1..n].
RECURSIVE GroupLoop(_, _)
GroupLoop(d, n) ==
    IF n = 1
    THEN [done |-> <<>>, current_start |-> d[1], current_end |-> d[1]]
    ELSE LET g == GroupLoop(d, n - 1)
         IN IF d[n] - g.current_end = 1
            THEN [g EXCEPT !.current_end = d[n]]
            ELSE [done |-> Append(g.done, <<g.current_start, g.current_end>>),
                  current_start |-> d[n], current_end |-> d[n]]

\* A grouping that closes a range at every date.
OneRangePerDate(d) == [i \in 1..Len(d) |-> <<d[i], d[i]>>]

\* grouped_ranges
GroupedRanges(d) ==
    IF d = <<>> THEN <<>>
    ELSE LET g == GroupLoop(d, Len(d))
         IN Append(g.done, <<g.current_start, g.current_end>>)

\* The selectbox of the bulk form has no empty choice: it holds an option,
\* or nothing when its list is empty.
BulkSelectable(W, f) ==
    /\ f.Type \in Elems(TYPE_LIST)
    /\ LET names == Elems(W.lookup[ASSIGNED_TO_LIST_PATH].list)
       IN IF names = {} THEN f.AssignedTo = None ELSE f.AssignedTo \in names
    /\ Elems(f.Drivers) \subseteq Elems(W.lookup[DRIVERS_LIST_PATH].list)

\* "Add Bulk Entries and Push", mode "By Weekdays in Date Range"
BulkCreateWeekdays(s, f, bulk_start, bulk_end, bulk_weekdays, maxRows, fetchOk, stamp, outcome) ==
    /\ edited[s].has /\ ~pending[s]
    /\ \E W \in {RunStart(s, fetchOk)} :
       \E filtered_dates \in {FilteredDates(bulk_start, bulk_end, bulk_weekdays)} :
       \E grouped_ranges \in {GroupedRanges(filtered_dates)} :
       \E new_entries \in {[i \in 1..Len(grouped_ranges) |->
                              BulkEntry(f, to_datetime(grouped_ranges[i][1]),
                                        to_datetime(grouped_ranges[i][2]))]} :
       \E updated_df \in {ReassignIds(W.edited.df \o new_entries)} :
          IF W.stopped
          THEN FinishPlain(s, W, "bulk_weekdays", <<>>)
          ELSE /\ BulkSelectable(W, f)
               /\ IF f.Type = None \/ f.AssignedTo = None
                  THEN FinishPlain(s, W, "bulk_weekdays", <<"st.error required">>)
                  ELSE IF bulk_weekdays = {}
                  THEN FinishPlain(s, W, "bulk_weekdays", <<"st.error weekday">>)
                  ELSE IF bulk_end < bulk_start
                  THEN FinishPlain(s, W, "bulk_weekdays", <<"st.error dates">>)
                  ELSE IF filtered_dates = <<>>
                  THEN FinishPlain(s, W, "bulk_weekdays", <<"st.warning no dates">>)
                  ELSE IF VehicleNumberBulkRaises(f.Type)
                  THEN FinishPlain(s, W, "bulk_weekdays", <<"ValueError">>)
                  ELSE /\ Len(updated_df) <= maxRows
                       /\ Len(W.head) < MaxCommits
                       /\ FinishSave(s, W, "bulk_weekdays", updated_df, stamp, outcome,
                                     <<"st.success added and pushed">>, TRUE, <<>>,
                                     [NoInfo EXCEPT !.rows_before = Len(W.edited.df),
                                                    !.bulk_start = bulk_start,
                                                    !.bulk_end = bulk_end,
                                                    !.bulk_weekdays = bulk_weekdays])

\* "Add Range"
AddRange(s, range_start, range_end, fetchOk) ==
    /\ edited[s].has /\ ~pending[s]
    /\ Len(ranges[s]) < MaxRanges
    /\ \E W \in {RunStart(s, fetchOk)} :
          IF W.stopped
          THEN FinishPlain(s, W, "add_range", <<>>)
          ELSE IF range_end < range_start
          THEN FinishPlain(s, W, "add_range", <<"st.warning dates">>)
          ELSE Finish(s, W.head, W.tree, remote, W.data, W.lookup, W.edited,
                      Append(ranges[s], <<range_start, range_end>>), FALSE,
                      PlainRun(s, "add_range", W.ev))

\* "Remove Range k": pop(idx) and a rerun.
RemoveRange(s, k, fetchOk) ==
    /\ edited[s].has /\ ~pending[s]
    /\ k \in 1..Len(ranges[s])
    /\ \E W \in {RunStart(s, fetchOk)} :
          IF W.stopped
          THEN FinishPlain(s, W, "remove_range", <<>>)
          ELSE Finish(s, W.head, W.tree, remote, W.data, W.lookup, W.edited,
                      SubSeq(ranges[s], 1, k - 1) \o SubSeq(ranges[s], k + 1, Len(ranges[s])),
                      TRUE, PlainRun(s, "remove_range", W.ev))

\* The days of the ranges rg[1..n]: all_dates.extend(pd.date_range(...)).
RECURSIVE DaysOfRanges(_, _)
DaysOfRanges(rg, n) ==
    IF n = 0 THEN {}
    ELSE DaysOfRanges(rg, n - 1) \cup (rg[n][1]..rg[n][2])

\* sorted(set(all_dates))
RECURSIVE SortedDays(_)
SortedDays(days) ==
    IF days = {} THEN <<>>
    ELSE LET m == CHOOSE d \in days : \A e \in days : e <= d
         IN Append(SortedDays(days \ {m}), m)

\* "Add Bulk Entries and Push", mode "By Selecting Multiple Date Ranges"
BulkCreateRanges(s, f, maxRows, fetchOk, stamp, outcome) ==
    /\ edited[s].has /\ ~pending[s]
    /\ \E W \in {RunStart(s, fetchOk)} :
       \E selected_dates \in {SortedDays(DaysOfRanges(ranges[s], Len(ranges[s])))} :
       \E new_entries \in {[i \in 1..Len(selected_dates) |->
                              BulkEntry(f, to_datetime(selected_dates[i]),
                                        to_datetime(selected_dates[i]))]} :
       \E updated_df \in {ReassignIds(W.edited.df \o new_entries)} :
          IF W.stopped
          THEN FinishPlain(s, W, "bulk_ranges", <<>>)
          ELSE /\ BulkSelectable(W, f)
               /\ IF f.Type = None \/ f.AssignedTo = None
                  THEN FinishPlain(s, W, "bulk_ranges", <<"st.error required">>)
                  ELSE IF ranges[s] = <<>>
                  THEN FinishPlain(s, W, "bulk_ranges", <<"st.error no range">>)
                  ELSE IF selected_dates = <<>>
                  THEN FinishPlain(s, W, "bulk_ranges", <<"st.warning no dates">>)
                  ELSE IF VehicleNumberBulkRaises(f.Type)
                  THEN FinishPlain(s, W, "bulk_ranges", <<"ValueError">>)
                  ELSE /\ Len(updated_df) <= maxRows
                       /\ Len(W.head) < MaxCommits
                       /\ FinishSave(s, W, "bulk_ranges", updated_df, stamp, outcome,
                                     <<"st.success added and pushed">>, TRUE, <<>>, NoInfo)

---------------------------------------------------------------------------
(* tab2: delete. *)

\* df.drop(index=label): the frame without the row whose index label is
\* label (the row at position label + 1).
DropIndex(df, label) == SelectRows(df, [i \in 1..Len(df) |-> i - 1 # label])

\* df_to_edit.drop(...), reset_index(drop=True), "Unique ID" = index
DeleteRow(df, entry_to_delete) == ReassignIds(DropIndex(df, entry_to_delete))

\* "Delete Selected Entry and Push": entry_to_delete is a "Unique ID" of the
\* session's frame, or NaNId for the empty choice of the selectbox.
DeleteEntry(s, entry_to_delete, confirm, fetchOk, stamp, outcome) ==
    /\ edited[s].has /\ ~pending[s]
    /\ entry_to_delete \in {NaNId} \cup Elems(Ids(edited[s].df))
    /\ \E W \in {RunStart(s, fetchOk)} :
          IF W.stopped
          THEN FinishPlain(s, W, "delete", <<>>)
          ELSE IF ~confirm \/ entry_to_delete = NaNId
          THEN FinishPlain(s, W, "delete", <<"st.error confirm">>)
          ELSE IF entry_to_delete \notin 0..(Len(W.edited.df) - 1)
          THEN FinishPlain(s, W, "delete", <<"KeyError">>)
          ELSE /\ Len(W.head) < MaxCommits
               /\ FinishSave(s, W, "delete", DeleteRow(W.edited.df, entry_to_delete),
                             stamp, outcome, <<"st.success deleted">>, TRUE, ranges[s],
                             [NoInfo EXCEPT !.entry = entry_to_delete,
                                            !.rows_before = Len(W.edited.df)])

\* df_to_edit[df_to_edit['Return Date'] > start_ts]
KeepAfter(df, start_ts) ==
    SelectRows(df, [i \in 1..Len(df) |-> df[i].ReturnDate > start_ts])

\* The bulk delete of the rows returned on or before the day start_dt:
\* start_ts = pd.to_datetime(start_dt) (line 720 replaces the 23:59 value
\* of line 712), the filter, reset_index(drop=True), "Unique ID" = index.
BulkDeleteRows(df, start_dt) == ReassignIds(KeepAfter(df, to_datetime(start_dt)))

\* "Delete Entries and Push"
BulkDelete(s, start_dt, confirm_delete, fetchOk, stamp, outcome) ==
    /\ edited[s].has /\ ~pending[s]
    /\ \E W \in {RunStart(s, fetchOk)} :
       \E df_to_edit \in {BulkDeleteRows(W.edited.df, start_dt)} :
       \E removed \in {Len(W.edited.df) - Len(df_to_edit)} :
          IF W.stopped
          THEN FinishPlain(s, W, "bulk_delete", <<>>)
          ELSE IF ~confirm_delete
          THEN FinishPlain(s, W, "bulk_delete", <<"st.error confirm">>)
          ELSE /\ Len(W.head) < MaxCommits
               /\ FinishSave(s, W, "bulk_delete", df_to_edit, stamp, outcome,
                             <<"st.success deleted">>, TRUE, ranges[s],
                             [NoInfo EXCEPT !.cutoff = start_dt,
                                            !.rows_before = Len(W.edited.df),
                                            !.reported = removed])

---------------------------------------------------------------------------
(* tab3: filter and edit. *)

\* A multiselect of the filter: whether "All" is among the selected, and
\* the other selected values.
FilterAll == [all |-> TRUE, vals |-> {}]

\* df_to_display: the session's frame under the three filters.
FilterView(df, filter_type, filter_assigned, filter_status) ==
    SelectRows(df, [i \in 1..Len(df) |->
        /\ (filter_type.all \/ df[i].Type \in filter_type.vals)
        /\ (filter_assigned.all \/ df[i].AssignedTo \in filter_assigned.vals)
        /\ (filter_status = "All" \/ df[i].Status = filter_status)])

\* The values a multiselect of the filter offers besides "All".
FilterOptions(df) ==
    [type |-> {df[i].Type : i \in 1..Len(df)},
     assigned |-> {df[i].AssignedTo : i \in 1..Len(df)}]

\* A run that keeps the filtered rows as the session's frame.
FilterEntriesInPlace(s, filter_type, filter_assigned, filter_status, fetchOk) ==
    /\ edited[s].has /\ ~pending[s]
    /\ \E W \in {RunStart(s, fetchOk)} :
       \E df_to_display \in {FilterView(W.edited.df, filter_type, filter_assigned,
                                        filter_status)} :
          /\ ~W.stopped /\ Tab3Renders(W.edited.df)
          /\ filter_type.vals \subseteq FilterOptions(W.edited.df).type
          /\ filter_assigned.vals \subseteq FilterOptions(W.edited.df).assigned
          /\ Finish(s, W.head, W.tree, remote, W.data, W.lookup,
                    [has |-> TRUE, df |-> df_to_display], ranges[s], FALSE,
                    RunRecord(s, "filter", W.ev, FALSE, NoFiles,
                              [NoInfo EXCEPT !.filter_type = filter_type,
                                             !.filter_assigned = filter_assigned,
                                             !.filter_status = filter_status,
                                             !.view = df_to_display]))

\* A run in which the user has set the filters of tab 3 and pressed no
\* button: the script filters a copy of the session's frame and hands the
\* result to the data editor.
FilterEntries(s, filter_type, filter_assigned, filter_status, fetchOk) ==
    /\ edited[s].has /\ ~pending[s]
    /\ \E W \in {RunStart(s, fetchOk)} :
       \E df_to_display \in {FilterView(W.edited.df, filter_type, filter_assigned,
                                        filter_status)} :
          IF W.stopped
          THEN FinishPlain(s, W, "filter", <<>>)
          ELSE IF ~Tab3Renders(W.edited.df)
          THEN FinishPlain(s, W, "filter", <<"TypeError">>)
          ELSE /\ filter_type.vals \subseteq FilterOptions(W.edited.df).type
               /\ filter_assigned.vals \subseteq FilterOptions(W.edited.df).assigned
               /\ Finish(s, W.head, W.tree, remote, W.data, W.lookup, W.edited,
                         ranges[s], FALSE,
                         RunRecord(s, "filter", W.ev, FALSE, NoFiles,
                                   [NoInfo EXCEPT !.filter_type = filter_type,
                                                  !.filter_assigned = filter_assigned,
                                                  !.filter_status = filter_status,
                                                  !.view = df_to_display]))

\* One edit of the data editor: the row it is made in and, per column, the
\* new value or the mark of a column left as it was.
SameText == <<"=">>
SameDay == 0 - 1
NoEdit == [id |-> NaNId, Type |-> SameText, AssignedTo |-> SameText,
           Status |-> "=", CheckoutDay |-> SameDay, ReturnDay |-> SameDay]

\* The row r as the editor returns it after edit e.
EditRow(r, e) ==
    IF e.id # r.UniqueID THEN r
    ELSE [r EXCEPT
            !.Type = IF e.Type = SameText THEN @ ELSE e.Type,
            !.AssignedTo = IF e.AssignedTo = SameText THEN @ ELSE e.AssignedTo,
            !.Status = IF e.Status = "=" THEN @ ELSE e.Status,
            !.CheckoutDate = IF e.CheckoutDay = SameDay THEN @
                             ELSE to_datetime(e.CheckoutDay),
            !.ReturnDate = IF e.ReturnDay = SameDay THEN @
                           ELSE to_datetime(e.ReturnDay)]

\* edited_filtered_df: the view without the rows removed in the editor,
\* with the edit, followed by the rows added (their "Unique ID" is NaN).
EditorResult(view, removed, e, added) ==
    LET kept == SelectRows(view, [i \in 1..Len(view) |-> view[i].UniqueID \notin removed])
    IN [i \in 1..Len(kept) |-> EditRow(kept[i], e)] \o added

\* DataFrame.update on one row: the values of other that are not missing.
UpdateRow(r, o) ==
    [r EXCEPT !.Type = IF o.Type = None THEN @ ELSE o.Type,
              !.AssignedTo = IF o.AssignedTo = None THEN @ ELSE o.AssignedTo,
              !.Status = o.Status,
              !.VehicleNum = o.VehicleNum,
              !.CheckoutDate = o.CheckoutDate,
              !.ReturnDate = o.ReturnDate,
              !.AuthorizedDrivers = IF o.AuthorizedDrivers = None THEN @
                                    ELSE o.AuthorizedDrivers,
              !.Notes = IF o.Notes = None THEN @ ELSE o.Notes]

\* updated_full_df.update(edited_filtered_df), both indexed by "Unique ID".
UpdateFrame(full, other) ==
    [i \in 1..Len(full) |->
        IF \E j \in 1..Len(other) : other[j].UniqueID = full[i].UniqueID
        THEN UpdateRow(full[i], other[CHOOSE j \in 1..Len(other) :
                                        other[j].UniqueID = full[i].UniqueID])
        ELSE full[i]]

\* A save that writes the frame the editor returned in place of the
\* session's frame.
MergeViewOnly(full, df_to_display, edited_filtered_df) ==
    LET cleaned == ReassignIds(sort_values(edited_filtered_df))
    IN [i \in 1..Len(cleaned) |->
          [cleaned[i] EXCEPT !.ReturnDate = set_time_to_2359(@)]]

\* The merge of "Save and Push Changes": update, the rows of the view that
\* the editor no longer holds removed, the added rows appended, sorted by
\* "Unique ID", the ids reassigned, every return time set to 23:59.
MergeEdits(full, df_to_display, edited_filtered_df) ==
    LET updated == UpdateFrame(full, edited_filtered_df)
        original_ids == Elems(Ids(df_to_display))
        edited_ids == Elems(Ids(edited_filtered_df))
        deleted_ids == original_ids \ edited_ids
        remaining == SelectRows(updated, [i \in 1..Len(updated) |->
                                    updated[i].UniqueID \notin deleted_ids])
        added_rows == SelectRows(edited_filtered_df,
                                 [i \in 1..Len(edited_filtered_df) |->
                                    edited_filtered_df[i].UniqueID = NaNId])
        cleaned == ReassignIds(sort_values(remaining \o added_rows))
    IN [i \in 1..Len(cleaned) |->
          [cleaned[i] EXCEPT !.ReturnDate = set_time_to_2359(@)]]

\* "Save and Push Changes".  update() reindexes other by the ids of the
\* full frame, which raises ValueError when two rows of other carry the
\* same label: two added rows, both NaN.
EditorSave(s, filter_type, filter_assigned, filter_status, removed, e, added, maxRows, fetchOk, stamp, outcome) ==
    /\ edited[s].has /\ ~pending[s]
    /\ \E W \in {RunStart(s, fetchOk)} :
       \E df_to_display \in {FilterView(W.edited.df, filter_type, filter_assigned,
                                        filter_status)} :
       \E edited_filtered_df \in {EditorResult(df_to_display, removed, e, added)} :
       \E updated_full_df \in {MergeEdits(W.edited.df, df_to_display,
                                          edited_filtered_df)} :
          IF W.stopped
          THEN FinishPlain(s, W, "save", <<>>)
          ELSE IF ~Tab3Renders(W.edited.df)
          THEN FinishPlain(s, W, "save", <<"TypeError">>)
          ELSE /\ filter_type.vals \subseteq {W.edited.df[i].Type : i \in 1..Len(W.edited.df)}
               /\ filter_assigned.vals \subseteq
                      {W.edited.df[i].AssignedTo : i \in 1..Len(W.edited.df)}
               /\ removed \subseteq Elems(Ids(df_to_display))
               /\ e.id \in {NaNId} \cup (Elems(Ids(df_to_display)) \ removed)
               /\ IF Len(added) >= 2
                  THEN FinishPlain(s, W, "save", <<"ValueError">>)
                  ELSE /\ Len(updated_full_df) <= maxRows
                       /\ Len(W.head) < MaxCommits
                       /\ FinishSave(s, W, "save", updated_full_df, stamp, outcome,
                                     <<>>, FALSE, ranges[s],
                                     [NoInfo EXCEPT !.rows_before = Len(W.edited.df),
                                                    !.filter_type = filter_type,
                                                    !.filter_assigned = filter_assigned,
                                                    !.filter_status = filter_status,
                                                    !.view = df_to_display,
                                                    !.removed = removed,
                                                    !.edit_id = e.id,
                                                    !.added = Len(added)])

---------------------------------------------------------------------------
(* tab4: the lists. *)

\* new_name.lower() in [name.lower() for name in current_list]
AlreadyListed(current_list, new_name) ==
    \E i \in 1..Len(current_list) : Lower(current_list[i]) = Lower(new_name)

\* add_to_list_file(file_path, new_name): the forms "Add to 'Assigned To'
\* List" and "Add to 'Drivers' List".
add_to_list_file(s, file_path, new_name, fetchOk, outcome) ==
    /\ edited[s].has /\ ~pending[s]
    /\ \E W \in {RunStart(s, fetchOk)} :
       \E current_list \in {W.lookup[file_path].list} :
       \E t2 \in {[W.tree EXCEPT !.lists[file_path] = Append(@, new_name)]} :
       \E pub \in {push_changes_to_github(cloneOf[s], W.head, t2, remote, outcome)} :
       \E back \in {load_vehicle_data(t2.xlsx)} :
          IF W.stopped
          THEN FinishPlain(s, W, "add_to_list", <<>>)
          ELSE IF ~Tab3Renders(W.edited.df)
          THEN FinishPlain(s, W, "add_to_list", <<"TypeError">>)
          ELSE IF new_name = <<>>
          THEN FinishPlain(s, W, "add_to_list", <<"st.warning name">>)
          ELSE IF AlreadyListed(current_list, new_name)
          THEN FinishPlain(s, W, "add_to_list", <<"st.error exists">>)
          ELSE /\ Len(W.tree.lists[file_path]) < MaxLines
               /\ Len(W.head) < MaxCommits
               /\ Finish(s, pub.head, t2, pub.remote,
                         [hit |-> TRUE, df |-> back], NoLists,
                         [has |-> TRUE, df |-> back], ranges[s], TRUE,
                         RunRecord(s, "add_to_list",
                                   W.ev \o <<"write list">> \o pub.ev
                                        \o <<"st.success added">>,
                                   TRUE, t2, NoInfo))

---------------------------------------------------------------------------
(* The inputs of the forms. *)

Form(type, assigned, status, checkout, return, drivers, notes) ==
    [Type |-> type, AssignedTo |-> assigned, Status |-> status,
     Checkout |-> checkout, Return |-> return, Drivers |-> drivers,
     Notes |-> notes]

\* The row a user types into the editor's empty last line.
AddedRow ==
    [UniqueID |-> NaNId, Type |-> TypeVan, VehicleNum |-> 7, AssignedTo |-> Bob,
     Status |-> "Reserved", CheckoutDate |-> to_datetime(3),
     ReturnDate |-> to_datetime(3), AuthorizedDrivers |-> None, Notes |-> None]

\* An edit of the first row's status.
StatusEdit == [NoEdit EXCEPT !.id = 0, !.Status = "Reserved"]

\* What a user does in tab 3 before "Save and Push Changes": the filters,
\* the rows removed in the editor, the edit, the rows added.
Editing(filter_type, filter_status, removed, e, added) ==
    [filter_type |-> filter_type, filter_status |-> filter_status,
     removed |-> removed, e |-> e, added |-> added]

\* What a run meets outside the program: whether the startup fetch reaches
\* the remote, the second of a save, the git call that fails if one does.
\* A run the fetch stops reads neither of the others.
Envs(stamps) ==
    {[fetchOk |-> TRUE, stamp |-> st, outcome |-> o] :
        st \in stamps, o \in IF failures < MaxFailures THEN GitOutcomes ELSE {"ok"}}
    \cup IF failures < MaxFailures
         THEN {[fetchOk |-> FALSE, stamp |-> 0, outcome |-> "ok"]}
         ELSE {}

\* Whether the startup fetch of a run reaches the remote.
Fetches == IF failures < MaxFailures THEN BOOLEAN ELSE {TRUE}

\* The inputs tried by one session on one checkout.
Inputs ==
    [sessions |-> {"s1"},
     maxRows |-> MaxRows,
     stamps |-> Stamps,
     forms |-> {Form(TypeTruck, Alice, "Confirmed", 1, 2, <<Ann>>, NoteText),
                Form(TypeVan, Bob, "Reserved", 3, 3, <<>>, <<>>)},
     bulkForms |-> {Form(TypeTruck, Bob, "Reserved", 0, 0, <<Ann>>, <<>>)},
     weekdays |-> {<<3, 3, {3}>>},
     dateRanges |-> {<<3, 3>>},
     cutoffs |-> {2},
     confirms |-> BOOLEAN,
     editor |-> {Editing(FilterAll, "All", {}, NoEdit, <<>>),
                 Editing(FilterAll, "All", {0}, NoEdit, <<>>),
                 Editing(FilterAll, "All", {}, StatusEdit, <<AddedRow>>),
                 Editing([all |-> FALSE, vals |-> {TypeVan}], "Reserved", {},
                         StatusEdit, <<>>),
                 Editing(FilterAll, "All", {}, NoEdit, <<AddedRow, AddedRow>>)},
     paths |-> {DRIVERS_LIST_PATH},
     names |-> {Bob, AnnLower}]

\* The inputs tried by two sessions that share and publish one table.
SharedInputs ==
    [sessions |-> Sessions,
     maxRows |-> MaxSharedRows,
     stamps |-> {0},
     forms |-> {Form(TypeTruck, Alice, "Confirmed", 1, 2, <<Ann>>, NoteText),
                Form(TypeVan, Bob, "Reserved", 3, 3, <<>>, <<>>)},
     confirms |-> {TRUE},
     editor |-> {Editing(FilterAll, "All", {}, NoEdit, <<>>),
                 Editing(FilterAll, "All", {}, StatusEdit, <<>>)}]

---------------------------------------------------------------------------
(* The specifications: processes with a checkout each of one remote        *)
(* branch, browser sessions on them.                                       *)

\* The files of a repository the application has initialised
\* (initialize_data_files_if_needed) and whose lists were then given names.
InitFiles ==
    [xlsx |-> to_excel(<<>>, 0),
     lists |-> [p \in ListPaths |->
                  IF p = ASSIGNED_TO_LIST_PATH THEN <<<<>>, Alice, Bob>>
                  ELSE <<<<>>, Ann>>]]

\* The state before the first script run on a repository that holds the
\* files: every checkout at the remote's tip, nothing cached, no session
\* state; dirs are the choices of which processes run with the directory
\* "repo", sessionClones the choices of which process serves which session.
InitOn(files, sessionClones, dirs) ==
    /\ remote = <<[tree |-> files, by |-> "origin"]>>
    /\ head = [c \in Clones |-> remote]
    /\ tree = [c \in Clones |-> files]
    /\ dataCache = [c \in Clones |-> NoData]
    /\ lookupCache = [c \in Clones |-> NoLists]
    /\ edited = [s \in Sessions |-> NoFrame]
    /\ ranges = [s \in Sessions |-> <<>>]
    /\ pending = [s \in Sessions |-> FALSE]
    /\ repoDir \in dirs
    /\ cloneOf \in sessionClones
    /\ lastRun = PlainRun("s1", "init", <<>>)
    /\ failures = 0

InitWith(sessionClones, dirs) == InitOn(InitFiles, sessionClones, dirs)

\* The runs of the tabs that write the table, over the inputs in.
TableStep(in, s) ==
    \/ \E fetchOk \in Fetches : Rerun(s, fetchOk)
    \/ \E f \in in.forms, env \in Envs(in.stamps) :
          CreateEntry(s, f, in.maxRows, env.fetchOk, env.stamp, env.outcome)
    \/ \E id \in {NaNId} \cup Elems(Ids(edited[s].df)), confirm \in in.confirms,
          env \in Envs(in.stamps) :
          DeleteEntry(s, id, confirm, env.fetchOk, env.stamp, env.outcome)
    \/ \E ed \in in.editor, env \in Envs(in.stamps) :
          EditorSave(s, ed.filter_type, FilterAll, ed.filter_status, ed.removed,
                     ed.e, ed.added, in.maxRows, env.fetchOk, env.stamp, env.outcome)

\* The runs of the other buttons, over the inputs in.
OtherStep(in, s) ==
    \/ \E f \in in.bulkForms, w \in in.weekdays, env \in Envs(in.stamps) :
          BulkCreateWeekdays(s, f, w[1], w[2], w[3], in.maxRows, env.fetchOk,
                             env.stamp, env.outcome)
    \/ \E r \in in.dateRanges, fetchOk \in Fetches : AddRange(s, r[1], r[2], fetchOk)
    \/ \E k \in 1..Len(ranges[s]), fetchOk \in Fetches : RemoveRange(s, k, fetchOk)
    \/ \E f \in in.bulkForms, env \in Envs(in.stamps) :
          BulkCreateRanges(s, f, in.maxRows, env.fetchOk, env.stamp, env.outcome)
    \/ \E d \in in.cutoffs, confirm \in in.confirms, env \in Envs(in.stamps) :
          BulkDelete(s, d, confirm, env.fetchOk, env.stamp, env.outcome)
    \/ \E p \in in.paths, n \in in.names, env \in Envs(in.stamps) :
          add_to_list_file(s, p, n, env.fetchOk, env.outcome)

\* One process, one session, every button; the process runs with or
\* without the directory "repo".
Init ==
    InitWith({[s \in Sessions |-> "c1"]}, {[c \in Clones |-> d] : d \in BOOLEAN})

Next == \E s \in Inputs.sessions : TableStep(Inputs, s) \/ OtherStep(Inputs, s)

Spec == Init /\ [][Next]_vars

\* Two sessions, on one process or on a process each with its own checkout,
\* and the buttons of the tabs that write the table.
InitShared ==
    InitWith({[s \in Sessions |-> IF s = "s1" THEN "c1" ELSE c] : c \in Clones},
             {[c \in Clones |-> d] : d \in BOOLEAN})

NextShared == \E s \in SharedInputs.sessions : TableStep(SharedInputs, s)

SpecShared == InitShared /\ [][NextShared]_vars

\* A run that meets no failure outside the program.
Steady == [fetchOk |-> TRUE, stamp |-> 0, outcome |-> "ok"]

\* An edit of the first row's checkout date.
CheckoutEdit == [NoEdit EXCEPT !.id = 0, !.CheckoutDay = 5]

\* The inputs tried on the validation of the forms: a selector left empty,
\* a checkout date after the return date, no weekday, an end before a start.
FormInputs ==
    [sessions |-> {"s1"},
     maxRows |-> MaxRows,
     forms |-> {Form(None, Alice, "Confirmed", 1, 2, <<Ann>>, NoteText),
                Form(TypeVan, None, "Reserved", 3, 3, <<>>, <<>>),
                Form(TypeTruck, Bob, "Confirmed", 3, 2, <<>>, NoteText),
                Form(TypeVan, Bob, "Reserved", 3, 3, <<Ann>>, <<>>)},
     bulkForms |-> {Form(TypeTruck, Bob, "Reserved", 0, 0, <<Ann>>, <<>>)},
     weekdays |-> {<<3, 2, {3}>>, <<3, 3, {}>>, <<3, 3, {3}>>, <<4, 4, {3}>>},
     dateRanges |-> {<<3, 2>>, <<3, 3>>},
     editor |-> {Editing(FilterAll, "All", {}, NoEdit, <<>>),
                 Editing(FilterAll, "All", {}, CheckoutEdit, <<>>)}]

\* The runs of the buttons that take a form, over the inputs in, when the
\* network and git do not fail.
FormStep(in, s) ==
    \/ Rerun(s, Steady.fetchOk)
    \/ \E f \in in.forms :
          CreateEntry(s, f, in.maxRows, Steady.fetchOk, Steady.stamp, Steady.outcome)
    \/ \E f \in in.bulkForms, w \in in.weekdays :
          BulkCreateWeekdays(s, f, w[1], w[2], w[3], in.maxRows, Steady.fetchOk,
                             Steady.stamp, Steady.outcome)
    \/ \E r \in in.dateRanges : AddRange(s, r[1], r[2], Steady.fetchOk)
    \/ \E k \in 1..Len(ranges[s]) : RemoveRange(s, k, Steady.fetchOk)
    \/ \E f \in in.bulkForms :
          BulkCreateRanges(s, f, in.maxRows, Steady.fetchOk, Steady.stamp,
                           Steady.outcome)
    \/ \E id \in Elems(Ids(edited[s].df)) :
          DeleteEntry(s, id, TRUE, Steady.fetchOk, Steady.stamp, Steady.outcome)
    \/ \E ed \in in.editor :
          EditorSave(s, ed.filter_type, FilterAll, ed.filter_status, ed.removed,
                     ed.e, ed.added, in.maxRows, Steady.fetchOk, Steady.stamp,
                     Steady.outcome)

\* One process, one session, the forms and the editor.
NextForms == \E s \in FormInputs.sessions : FormStep(FormInputs, s)

SpecForms == Init /\ [][NextForms]_vars

\* The inputs tried on the bulk create by weekdays: ranges that start on a
\* Monday or a Wednesday, end before or after they start and run into the
\* next week; the default weekdays, alternate days, a weekend with the
\* Monday after it, one day, every day.
BulkInputs ==
    [sessions |-> {"s1"},
     maxRows |-> MaxBulkRows,
     bulkForms |-> {Form(TypeTruck, Bob, "Reserved", 0, 0, <<Ann>>, <<>>)},
     starts |-> {0, 2},
     ends |-> 0..MaxDay,
     weekdays |-> {{3, 4}, {0, 2, 4}, {5, 6, 0}, {1}, 0..6}]

\* The runs of the bulk create by weekdays, over the inputs in, when the
\* network and git do not fail.
BulkStep(in, s) ==
    \/ Rerun(s, Steady.fetchOk)
    \/ \E f \in in.bulkForms, a \in in.starts, b \in in.ends, w \in in.weekdays :
          BulkCreateWeekdays(s, f, a, b, w, in.maxRows, Steady.fetchOk,
                             Steady.stamp, Steady.outcome)

\* One process, one session, the bulk create by weekdays.
NextBulk == \E s \in BulkInputs.sessions : BulkStep(BulkInputs, s)

SpecBulk == Init /\ [][NextBulk]_vars

\* The inputs tried on the filters of tab 3: each multiselect with "All",
\* with nothing, with one value, with "All" and one value; every status.
FilterInputs ==
    [sessions |-> {"s1"},
     maxRows |-> MaxRows,
     forms |-> {Form(TypeTruck, Alice, "Confirmed", 1, 2, <<Ann>>, NoteText),
                Form(TypeVan, Bob, "Reserved", 3, 3, <<>>, <<>>),
                Form(TypeVan, Alice, "Confirmed", 4, 5, <<>>, <<>>)},
     filter_types |-> {FilterAll, [all |-> FALSE, vals |-> {}],
                       [all |-> FALSE, vals |-> {TypeVan}],
                       [all |-> TRUE, vals |-> {TypeVan}]},
     filter_assigneds |-> {FilterAll, [all |-> FALSE, vals |-> {}],
                           [all |-> FALSE, vals |-> {Alice}]},
     filter_statuses |-> {"All"} \cup Statuses]

\* The runs that fill the table and set the filters, over the inputs in.
FilterStep(in, s) ==
    \/ \E fetchOk \in Fetches : Rerun(s, fetchOk)
    \/ \E f \in in.forms :
          CreateEntry(s, f, in.maxRows, Steady.fetchOk, Steady.stamp, Steady.outcome)
    \/ \E ft \in in.filter_types, fa \in in.filter_assigneds,
          fs \in in.filter_statuses, fetchOk \in Fetches :
          FilterEntries(s, ft, fa, fs, fetchOk)

\* One process, one session, creates and the filters of tab 3.
NextFilter == \E s \in FilterInputs.sessions : FilterStep(FilterInputs, s)

SpecFilter == Init /\ [][NextFilter]_vars

\* The inputs tried on the lists by two sessions: a name that one list
\* holds and the other does not, a name a list holds in another case.
ListInputs ==
    [sessions |-> Sessions,
     paths |-> ListPaths,
     names |-> {Bob, AnnLower}]

\* The runs of tab 4, over the inputs in.
ListStep(in, s) ==
    \/ \E fetchOk \in Fetches : Rerun(s, fetchOk)
    \/ \E p \in in.paths, n \in in.names, env \in Envs({0}) :
          add_to_list_file(s, p, n, env.fetchOk, env.outcome)

\* Two processes with a checkout each, a session on each, the lists.
InitLists ==
    InitWith({[s \in Sessions |-> IF s = "s1" THEN "c1" ELSE "c2"]},
             {[c \in Clones |-> d] : d \in BOOLEAN})

NextLists == \E s \in ListInputs.sessions : ListStep(ListInputs, s)

SpecLists == InitLists /\ [][NextLists]_vars

\* The inputs tried on the chart: reservations of both statuses on the same
\* vehicle type, one of them for an assignee whose name holds the word
\* "Reserved".
ChartInputs ==
    [sessions |-> {"s1"},
     maxRows |-> MaxRows,
     forms |-> {Form(TypeVan, NameReserved, "Confirmed", 1, 2, <<>>, <<>>),
                Form(TypeVan, Bob, "Reserved", 3, 3, <<>>, <<>>),
                Form(TypeVan, Alice, "Confirmed", 4, 5, <<>>, <<>>),
                Form(TypeTruck, Bob, "Confirmed", 4, 5, <<>>, <<>>),
                Form(TypeVan, Alice, "Reserved", 6, 6, <<>>, <<>>)}]

\* The runs that fill the table, over the inputs in; every run draws the
\* chart of the table it loaded.
ChartStep(in, s) ==
    \/ Rerun(s, Steady.fetchOk)
    \/ \E f \in in.forms :
          CreateEntry(s, f, in.maxRows, Steady.fetchOk, Steady.stamp, Steady.outcome)
    \/ \E id \in Elems(Ids(edited[s].df)) :
          DeleteEntry(s, id, TRUE, Steady.fetchOk, Steady.stamp, Steady.outcome)

\* A repository whose list of assignees holds such a name (the list takes
\* any text that is not empty and not yet in it).
ChartFiles ==
    [InitFiles EXCEPT !.lists[ASSIGNED_TO_LIST_PATH] = Append(@, NameReserved)]

\* One process, one session, creates and deletes.
InitChart ==
    InitOn(ChartFiles, {[s \in Sessions |-> "c1"]}, {[c \in Clones |-> d] : d \in BOOLEAN})

NextChart == \E s \in ChartInputs.sessions : ChartStep(ChartInputs, s)

SpecChart == InitChart /\ [][NextChart]_vars

\* The inputs tried on the vehicle number: a type that starts with a
\* number and a "-", a type without a "-" that is a word, one that is a
\* number, and a type with a "-" after a word.
NumberInputs ==
    [sessions |-> {"s1"},
     maxRows |-> MaxRows,
     forms |-> {Form(t, Bob, "Reserved", 3, 3, <<>>, NoteText) : t \in Elems(TYPE_LIST)},
     weekdays |-> {<<3, 3, {3}>>},
     dateRanges |-> {<<3, 3>>}]

\* The runs of the create and of the bulk create in both modes, over the
\* inputs in, when the network and git do not fail.
NumberStep(in, s) ==
    \/ Rerun(s, Steady.fetchOk)
    \/ \E f \in in.forms :
          CreateEntry(s, f, in.maxRows, Steady.fetchOk, Steady.stamp, Steady.outcome)
    \/ \E f \in in.forms, w \in in.weekdays :
          BulkCreateWeekdays(s, f, w[1], w[2], w[3], in.maxRows, Steady.fetchOk,
                             Steady.stamp, Steady.outcome)
    \/ \E r \in in.dateRanges : AddRange(s, r[1], r[2], Steady.fetchOk)
    \/ \E f \in in.forms :
          BulkCreateRanges(s, f, in.maxRows, Steady.fetchOk, Steady.stamp,
                           Steady.outcome)

\* One process, one session, the create and the bulk create.
NextNumber == \E s \in NumberInputs.sessions : NumberStep(NumberInputs, s)

SpecNumber == Init /\ [][NextNumber]_vars

\* An edit of the first row's type.
TypeEdit == [NoEdit EXCEPT !.id = 0, !.Type = TypeVan]

\* The inputs tried on the vehicle number of a row whose type is edited:
\* types with and without a leading number, an editor save that changes
\* nothing and one that changes the first row's type.
RetypeInputs ==
    [sessions |-> {"s1"},
     maxRows |-> MaxRows,
     forms |-> {Form(TypeTruck, Alice, "Confirmed", 1, 2, <<Ann>>, NoteText),
                Form(TypeVan, Bob, "Reserved", 3, 3, <<>>, <<>>)},
     weekdays |-> {<<3, 3, {3}>>},
     dateRanges |-> {<<3, 3>>},
     editor |-> {Editing(FilterAll, "All", {}, NoEdit, <<>>),
                 Editing(FilterAll, "All", {}, TypeEdit, <<>>)}]

\* The runs of the create, of the bulk create in both modes and of the
\* editor's save, over the inputs in, when the network and git do not fail.
RetypeStep(in, s) ==
    \/ Rerun(s, Steady.fetchOk)
    \/ \E f \in in.forms :
          CreateEntry(s, f, in.maxRows, Steady.fetchOk, Steady.stamp, Steady.outcome)
    \/ \E f \in in.forms, w \in in.weekdays :
          BulkCreateWeekdays(s, f, w[1], w[2], w[3], in.maxRows, Steady.fetchOk,
                             Steady.stamp, Steady.outcome)
    \/ \E r \in in.dateRanges : AddRange(s, r[1], r[2], Steady.fetchOk)
    \/ \E f \in in.forms :
          BulkCreateRanges(s, f, in.maxRows, Steady.fetchOk, Steady.stamp,
                           Steady.outcome)
    \/ \E ed \in in.editor :
          EditorSave(s, ed.filter_type, FilterAll, ed.filter_status, ed.removed,
                     ed.e, ed.added, in.maxRows, Steady.fetchOk, Steady.stamp,
                     Steady.outcome)

\* One process, one session, the creates and the editor.
NextRetype == \E s \in RetypeInputs.sessions : RetypeStep(RetypeInputs, s)

SpecRetype == Init /\ [][NextRetype]_vars

\* Edits of the second row's type and of the third row's assignee.
SecondTypeEdit == [NoEdit EXCEPT !.id = 1, !.Type = TypeTruck]
ThirdAssigneeEdit == [NoEdit EXCEPT !.id = 2, !.AssignedTo = Bob]

\* The inputs tried on the editor's save through a view: the filters of
\* tab 3 that show every row, the vans, Alice's rows, the reserved rows or
\* a mix; a row of the view edited (so that it stays in the view or leaves
\* it) or none; a row added or none.
EditInputs ==
    [sessions |-> {"s1"},
     maxRows |-> MaxEditRows,
     filter_types |-> {FilterAll, [all |-> FALSE, vals |-> {TypeVan}]},
     filter_assigneds |-> {FilterAll, [all |-> FALSE, vals |-> {Alice}]},
     filter_statuses |-> {"All", "Reserved"},
     edits |-> {NoEdit, StatusEdit, SecondTypeEdit, ThirdAssigneeEdit},
     addeds |-> {<<>>, <<AddedRow>>}]

\* The runs of the editor's save, over the inputs in and with any rows
\* removed in the editor, when the network and git do not fail.
EditStep(in, s) ==
    \/ Rerun(s, Steady.fetchOk)
    \/ \E ft \in in.filter_types, fa \in in.filter_assigneds, fs \in in.filter_statuses,
          removed \in SUBSET Elems(Ids(edited[s].df)), e \in in.edits,
          added \in in.addeds :
          EditorSave(s, ft, fa, fs, removed, e, added, in.maxRows, Steady.fetchOk,
                     Steady.stamp, Steady.outcome)

\* A repository whose table holds three reservations as "Add New Entry and
\* Push" writes them.
EditFiles ==
    [InitFiles EXCEPT !.xlsx =
        to_excel(ReassignIds(<<NewEntry(Form(TypeTruck, Alice, "Confirmed", 1, 2, <<Ann>>, NoteText)), NewEntry(Form(TypeVan, Bob, "Reserved", 3, 3, <<>>, <<>>)), NewEntry(Form(TypeVan, Alice, "Confirmed", 4, 5, <<>>, NoteText))>>), 0)]

\* One process, one session, the editor.
InitEdits ==
    InitOn(EditFiles, {[s \in Sessions |-> "c1"]}, {[c \in Clones |-> d] : d \in BOOLEAN})

NextEdits == \E s \in EditInputs.sessions : EditStep(EditInputs, s)

SpecEdits == InitEdits /\ [][NextEdits]_vars

---------------------------------------------------------------------------
(* Properties. *)

\* The Excel file of the checkout that serves the session of the last run.
LastFile == tree[cloneOf[lastRun.s]].xlsx

\* The ids of a frame are exactly 0 .. count-1.
IdsExact(df) == {df[i].UniqueID : i \in 1..Len(df)} = 0..(Len(df) - 1)

\* C1: after every operation (single create, bulk create in both modes,
\* single delete, bulk delete by date, editor save) the ids of the persisted
\* table and of every session's snapshot are exactly 0 .. count-1, without
\* gap or duplicate.
C1_IdsDense ==
    /\ \A c \in Clones : IdsExact(tree[c].xlsx.rows)
    /\ \A s \in Sessions : edited[s].has => IdsExact(edited[s].df)

\* Two records were created, the one with id 0 was deleted, and the record
\* that remains, the second one created, has id 0.
C1_Witness ==
    /\ lastRun.op = "delete" /\ lastRun.mutated
    /\ lastRun.info.entry = 0 /\ lastRun.info.rows_before = 2
    /\ Len(LastFile.rows) = 1
    /\ LastFile.rows[1].UniqueID = 0
    /\ LastFile.rows[1].Type = TypeVan
    /\ edited[lastRun.s].df[1].UniqueID = 0

\* The publish of a run showed its error (a git call failed).
PublishFailed(ev) == \E i \in 1..Len(ev) : ev[i] = "st.error push"

\* The session other than s.
Other(s) == CHOOSE o \in Sessions : o # s

\* The record a create appended to the frame it wrote.
Created(run) == RowKey(run.wrote.xlsx.rows[Len(run.wrote.xlsx.rows)])

\* C2: two sessions on the same persisted table have read the same
\* snapshot and each then creates a record of its own, one create after
\* the other: afterwards the table holds the records of the snapshot and
\* both new records, or the later create shows a failure.
C2_NoLostCreate ==
    [][LET s == lastRun'.s
           o == Other(s)
           c == cloneOf[s]
       IN (/\ cloneOf[o] = c
           /\ lastRun.s = o /\ lastRun.op = "create" /\ lastRun.mutated
           /\ ~PublishFailed(lastRun.ev)
           /\ edited[s].has /\ edited[o].has
           /\ Len(edited[o].df) = Len(edited[s].df) + 1
           /\ Keys(edited[s].df) \subseteq Keys(edited[o].df)
           /\ lastRun'.op = "create" /\ lastRun'.mutated
           /\ Created(lastRun') # Created(lastRun))
          => \/ /\ Keys(edited[o].df) \subseteq Keys(tree'[c].xlsx.rows)
                /\ Len(tree'[c].xlsx.rows) = Len(edited[o].df) + 1
             \/ PublishFailed(lastRun'.ev)]_vars

\* C3: rows that another checkout published after the session took its
\* snapshot, and that the startup pull brings into the local table, are
\* still in the table after a create, a delete or an editor save of the
\* session, and in the snapshot it then holds.
C3_PulledRowsKept ==
    [][LET s == lastRun'.s
           c == cloneOf[s]
           brought == Keys(Tip(remote).tree.xlsx.rows) \ Keys(edited[s].df)
       IN (/\ repoDir[c] /\ edited[s].has
           /\ Tip(remote).by \notin {c, "origin"}
           /\ lastRun'.op \in {"create", "delete", "save"} /\ lastRun'.mutated)
          => /\ brought \subseteq Keys(tree'[c].xlsx.rows)
             /\ brought \subseteq Keys(edited'[s].df)]_vars

\* The reservations of a frame in row order, without their ids.
KeySeq(df) == [i \in 1..Len(df) |-> RowKey(df[i])]

\* The rows of df whose return time is later than 23:59 of the day.
ReturnedAfter(df, day) ==
    SelectRows(df, [i \in 1..Len(df) |->
                      df[i].ReturnDate > set_time_to_2359(to_datetime(day))])

\* C4: a bulk delete with cutoff day D removes exactly the records whose
\* return time is at or before 23:59 of D, keeps every record that returns
\* later, and reports the number of records it removed.
C4_BulkDeleteCutoff ==
    [][LET s == lastRun'.s
           c == cloneOf[s]
           kept == ReturnedAfter(edited[s].df, lastRun'.info.cutoff)
       IN (lastRun'.op = "bulk_delete" /\ lastRun'.mutated)
          => /\ KeySeq(tree'[c].xlsx.rows) = KeySeq(kept)
             /\ lastRun'.info.reported = Len(edited[s].df) - Len(kept)]_vars

\* The position of the first call or message x in ev, 0 when it has none.
First(ev, x) ==
    IF \E i \in 1..Len(ev) : ev[i] = x
    THEN CHOOSE i \in 1..Len(ev) : ev[i] = x /\ \A j \in 1..(i - 1) : ev[j] # x
    ELSE 0

Has(ev, x) == First(ev, x) # 0

\* C5: in every run that publishes, a fetch of the remote branch comes
\* before the commit and before the push, and a run whose fetch fails makes
\* no commit and no push.
C5_PullBeforeCommit ==
    LET ev == lastRun.ev
    IN /\ Has(ev, "git commit") => /\ Has(ev, "git fetch")
                                   /\ First(ev, "git fetch") < First(ev, "git commit")
       /\ Has(ev, "git push") => /\ Has(ev, "git fetch")
                                 /\ First(ev, "git fetch") < First(ev, "git push")
       /\ Has(ev, "st.error pull") => ~Has(ev, "git commit") /\ ~Has(ev, "git push")

\* The write of a file by a handler: its position in ev, 0 when none.
WriteAt(ev) ==
    IF Has(ev, "to_excel") THEN First(ev, "to_excel") ELSE First(ev, "write list")

PushRejected(ev) == Has(ev, "git push") /\ PublishFailed(ev)

\* C7: the reservations a handler wrote to the local file, and whose push
\* failed, are still in the local file after the session's next run with no
\* button pressed (its startup fetch and reset included).
C7_LocalEditKept ==
    [][LET c == cloneOf[lastRun'.s]
       IN (/\ lastRun.mutated /\ PushRejected(lastRun.ev)
           /\ lastRun'.s = lastRun.s /\ lastRun'.op = "rerun")
          => Keys(tree[c].xlsx.rows) \subseteq Keys(tree'[c].xlsx.rows)]_vars

\* C8: the local HEAD holds commits whose push failed, and a handler
\* publishes again with the files as they are: the run tries the push
\* again (or shows that a git call failed).
C8_RetryPushes ==
    [][LET c == cloneOf[lastRun'.s]
       IN (/\ head[c] # remote /\ IsPrefix(remote, head[c])
           /\ tree[c] = Tip(head[c]).tree
           /\ lastRun'.mutated
           /\ tree'[c] = tree[c])
          => \/ Has(lastRun'.ev, "git push")
             \/ PublishFailed(lastRun'.ev)]_vars

\* The HEAD of checkout c after the startup pull of a run that went on.
StartHead(c) == IF repoDir[c] THEN remote ELSE head[c]

\* C9: when the files a handler wrote do not differ from the last commit,
\* its publish makes no commit and no push, and the local history and the
\* remote branch stay as they were.
C9_NoChangeNoCommit ==
    [][LET c == cloneOf[lastRun'.s]
       IN (lastRun'.mutated /\ tree'[c] = Tip(StartHead(c)).tree)
          => /\ ~Has(lastRun'.ev, "git commit")
             /\ ~Has(lastRun'.ev, "git push")
             /\ head'[c] = StartHead(c)
             /\ remote' = remote]_vars

\* A handler wrote files equal to the last commit and its publish said so.
C9_Witness ==
    /\ lastRun.mutated
    /\ Has(lastRun.ev, "st.info no changes")
    /\ LastFile.rows # <<>>
    /\ tree[cloneOf[lastRun.s]] = Tip(head[cloneOf[lastRun.s]]).tree

\* C10: two processes with a checkout each took their snapshots at the
\* same remote tip; the first published a reservation; the second then
\* publishes another one: its push fails and it is shown the failure, and
\* the remote branch stays at the first one's commit.
C10_SecondPublishFails ==
    [][LET s == lastRun'.s
           c == cloneOf[s]
       IN (/\ cloneOf[Other(s)] # c
           /\ Len(remote) = 2 /\ Tip(remote).by = cloneOf[Other(s)]
           /\ edited[s].has
           /\ edited[s].df = load_vehicle_data(remote[1].tree.xlsx)
           /\ lastRun'.mutated
           /\ Keys(lastRun'.wrote.xlsx.rows) # Keys(edited[s].df)
           /\ Keys(lastRun'.wrote.xlsx.rows) # Keys(Tip(remote).tree.xlsx.rows))
          => /\ PublishFailed(lastRun'.ev)
             /\ remote' = remote]_vars

\* C11: a mutation whose publish failed (a git call of add, commit or push
\* exited with an error) tells the user that the change was saved locally,
\* and does not tell the user that the change was pushed.
C11_FailureNotReportedPushed ==
    (lastRun.mutated /\ PublishFailed(lastRun.ev)) =>
        /\ Has(lastRun.ev, "st.warning saved locally")
        /\ ~Has(lastRun.ev, "st.success added and pushed")

\* C12: in every persisted table and every session snapshot, every record's
\* checkout time is at or before its return time (a create, a bulk create or
\* an editor save with a checkout date after the return date writes nothing).
C12_CheckoutBeforeReturn ==
    /\ \A c \in Clones : \A i \in 1..Len(tree[c].xlsx.rows) :
          tree[c].xlsx.rows[i].CheckoutDate <= tree[c].xlsx.rows[i].ReturnDate
    /\ \A s \in Sessions : \A i \in 1..Len(edited[s].df) :
          edited[s].df[i].CheckoutDate <= edited[s].df[i].ReturnDate

\* C13: a create or a bulk create that wrote the table appended a record
\* whose vehicle type and whose assignee are not empty (with an empty
\* selector the handler writes nothing).
C13_RequiredSelectors ==
    (lastRun.op \in {"create", "bulk_weekdays", "bulk_ranges"} /\ lastRun.mutated) =>
        LET rows == lastRun.wrote.xlsx.rows
        IN /\ rows # <<>>
           /\ rows[Len(rows)].Type # None
           /\ rows[Len(rows)].AssignedTo # None

\* The time of day of a datetime, in minutes.
TimeOfDay(ts) == ts % MinutesPerDay

\* Every record of the frame returns at 23:59 and is checked out at 00:00.
TimesNormal(df) ==
    \A i \in 1..Len(df) : /\ TimeOfDay(df[i].ReturnDate) = 23 * 60 + 59
                          /\ TimeOfDay(df[i].CheckoutDate) = 0

\* C14: every record of every persisted table (written by single create,
\* bulk create in both modes, editor save, and the deletes that rewrite the
\* rest) has its return time at 23:59 and its checkout time at 00:00, and so
\* has every record that loading a table returns and every record of a
\* session's snapshot.
C14_TimesOfDay ==
    /\ \A c \in Clones : /\ TimesNormal(tree[c].xlsx.rows)
                         /\ TimesNormal(load_vehicle_data(tree[c].xlsx))
                         /\ TimesNormal(dataCache[c].df)
    /\ \A s \in Sessions : TimesNormal(edited[s].df)

\* An editor save wrote a row that was added in the editor, where its dates
\* have no time of day: the file holds it returning at 23:59 of its day.
C14_Witness ==
    /\ lastRun.op = "save" /\ lastRun.mutated
    /\ \E i \in 1..Len(LastFile.rows) :
          /\ LastFile.rows[i].VehicleNum = AddedRow.VehicleNum
          /\ LastFile.rows[i].CheckoutDate = to_datetime(3)
          /\ LastFile.rows[i].ReturnDate = to_datetime(3) + 23 * 60 + 59

\* The day is one of the form's range and its weekday is selected.
DaySelected(info, day) ==
    /\ day \in info.bulk_start..info.bulk_end
    /\ weekday(day) \in info.bulk_weekdays

\* The maximal runs of consecutive selected days, as <<first, last>>.
MaximalRuns(info) ==
    {<<a, b>> \in (info.bulk_start..info.bulk_end) \X (info.bulk_start..info.bulk_end) :
        /\ a <= b
        /\ \A d \in a..b : DaySelected(info, d)
        /\ ~DaySelected(info, a - 1)
        /\ ~DaySelected(info, b + 1)}

\* The rows a bulk create appended to the frame it wrote.
Appended(run) ==
    SubSeq(run.wrote.xlsx.rows, run.info.rows_before + 1, Len(run.wrote.xlsx.rows))

\* C15: a bulk create by weekdays appends exactly one record per maximal
\* run of consecutive days of its range whose weekday is selected, checked
\* out on the first day of the run and returned on its last day, in the
\* order of the days.
C15_OneRecordPerRun ==
    (lastRun.op = "bulk_weekdays" /\ lastRun.mutated) =>
        LET new == Appended(lastRun)
        IN /\ Len(new) = Cardinality(MaximalRuns(lastRun.info))
           /\ {<<DayOf(new[i].CheckoutDate), DayOf(new[i].ReturnDate)>> :
                  i \in 1..Len(new)} = MaximalRuns(lastRun.info)
           /\ \A i, j \in 1..Len(new) :
                 i < j => new[i].ReturnDate < new[j].CheckoutDate

\* A bulk create over a range whose selected days fall into two blocks that
\* are not adjacent, one of them of several days: two records.
C15_Witness ==
    /\ lastRun.op = "bulk_weekdays" /\ lastRun.mutated
    /\ Len(Appended(lastRun)) = 2
    /\ \E i \in 1..2 : DayOf(Appended(lastRun)[i].ReturnDate)
                          >= DayOf(Appended(lastRun)[i].CheckoutDate) + 2
    /\ Cardinality({d \in 0..MaxDay : DaySelected(lastRun.info, d)}) = 4

\* The run went as far as tab 3 and filtered the session's frame.
Filtered(run) ==
    run.op = "filter" /\ ~Has(run.ev, "st.stop") /\ ~Has(run.ev, "TypeError")

\* C16: a run that sets the filters of tab 3 (any types, assignees, status)
\* leaves the session's snapshot, with its records and their ids, as it was,
\* writes no file (the local files are those the startup pull left) and
\* publishes nothing.
C16_FilterPure ==
    [][LET s == lastRun'.s
           c == cloneOf[s]
       IN lastRun'.op = "filter"
          => /\ edited'[s] = edited[s]
             /\ Ids(edited'[s].df) = Ids(edited[s].df)
             /\ tree'[c] = IF Has(lastRun'.ev, "git reset")
                           THEN Tip(remote).tree ELSE tree[c]
             /\ head'[c] = IF Has(lastRun'.ev, "git reset") THEN remote ELSE head[c]
             /\ remote' = remote
             /\ ~lastRun'.mutated]_vars

\* A filter that shows one of the two records of the snapshot.
C16_Witness ==
    /\ Filtered(lastRun)
    /\ Len(lastRun.info.view) = 1
    /\ Len(edited[lastRun.s].df) = 2
    /\ Len(LastFile.rows) = 2

\* The rows of df that a filter keeps when a dimension whose selector is
\* empty or holds "All" does not filter.
FilterWanted(df, filter_type, filter_assigned, filter_status) ==
    SelectRows(df, [i \in 1..Len(df) |->
        /\ (filter_type.all \/ filter_type.vals = {} \/ df[i].Type \in filter_type.vals)
        /\ (filter_assigned.all \/ filter_assigned.vals = {}
               \/ df[i].AssignedTo \in filter_assigned.vals)
        /\ (filter_status = "All" \/ df[i].Status = filter_status)])

\* C17: the frame the filter gives holds exactly the records of the snapshot
\* that satisfy every dimension, where a dimension whose selector is empty
\* or holds "All" is satisfied by every record and any other dimension by
\* the records whose value is selected.
C17_FilterDimensions ==
    Filtered(lastRun) =>
        lastRun.info.view = FilterWanted(edited[lastRun.s].df, lastRun.info.filter_type,
                                         lastRun.info.filter_assigned,
                                         lastRun.info.filter_status)

\* The files of checkout c after the startup pull of a run that went on.
StartTree(c) == IF repoDir[c] THEN Tip(remote).tree ELSE tree[c]

\* C18: an append to a list writes the list file only when the file, as it
\* is when the handler runs, holds the name in no letter case; a name the
\* file holds is rejected and the file stays as it is, whatever appends and
\* pulls came before and however old the cached copy of the list is.
C18_ListedNameRejected ==
    [][\A p \in ListPaths :
          LET c == cloneOf[lastRun'.s]
              before == StartTree(c).lists[p]
              after == tree'[c].lists[p]
          IN (lastRun'.op = "add_to_list" /\ lastRun'.mutated /\ after # before)
             => ~AlreadyListed(load_lookup_list(before), after[Len(after)])]_vars

\* The position in the drawing order of the trace that holds the row.
DrawnAt(data, r) ==
    CHOOSE k \in 1..Len(data) :
        data[k].assigned = r.AssignedTo /\ data[k].status = r.Status

\* C19: in the chart of the table a run loaded, every Reserved interval is
\* drawn before (beneath) every Confirmed interval of the same vehicle
\* type, whatever the names of the assignees and the order of the rows.
C19_ReservedBeneath ==
    LET df == dataCache[cloneOf[lastRun.s]].df
        data == generate_gantt_chart(df)
    IN \A i, j \in 1..Len(df) :
          (/\ df[i].Status = "Reserved" /\ df[j].Status = "Confirmed"
           /\ df[i].Type = df[j].Type)
          => DrawnAt(data, df[i]) < DrawnAt(data, df[j])

\* The rows as a load of the file that holds them should return them: every
\* field as written, the return time at 23:59.
Reloaded(rows) ==
    [i \in 1..Len(rows) |-> [rows[i] EXCEPT !.ReturnDate = set_time_to_2359(@)]]

\* What a multiselect over the list can hold: up to two of its names.
Selections(list) ==
    {<<>>} \cup {<<x>> : x \in Elems(list)}
           \cup {<<x, y>> : x \in Elems(list), y \in Elems(list)}

\* C20: after a handler has written the table and read it back, the
\* session's snapshot holds the records it wrote with the same values in
\* every field (empty notes and empty drivers as empty text), the return
\* time at 23:59; and the drivers of a record that a create or a bulk create
\* appended are the ", "-joined names of a selection from the drivers list.
C20_RoundTrip ==
    LET s == lastRun.s
        rows == lastRun.wrote.xlsx.rows
        drivers == load_lookup_list(lastRun.wrote.lists[DRIVERS_LIST_PATH])
    IN /\ (/\ lastRun.mutated
           /\ lastRun.op \in {"create", "bulk_weekdays", "bulk_ranges", "delete",
                              "bulk_delete"})
          => edited[s].df = Reloaded(rows)
       /\ (lastRun.mutated /\ lastRun.op \in {"create", "bulk_weekdays", "bulk_ranges"})
          => \E sel \in Selections(drivers) :
                rows[Len(rows)].AuthorizedDrivers = JoinCommaSpace(sel)

\* The vehicle number of a type under the one policy: the integer before
\* the first "-" (the whole text without one), 0 when that is no integer.
WantedNumber(type) ==
    IF IntParses(Strip(SplitDashFirst(type)))
    THEN IntOf(Strip(SplitDashFirst(type)))
    ELSE 0

\* C21: a create and a bulk create (both modes) treat every vehicle type
\* alike: neither ends in an exception, and the record written has the
\* integer before the first "-" of its type as its vehicle number, or 0
\* when there is none.
C21_UniformVehicleNumber ==
    lastRun.op \in {"create", "bulk_weekdays", "bulk_ranges"} =>
        /\ ~Has(lastRun.ev, "ValueError")
        /\ lastRun.mutated =>
              LET rows == lastRun.wrote.xlsx.rows
              IN rows[Len(rows)].VehicleNum = WantedNumber(rows[Len(rows)].Type)

\* C22: after a create, a bulk create or an editor save, every record of
\* the table written has the vehicle number derived from the leading token
\* of its current vehicle type; an editor save that changes a record's type
\* derives the number again.
C22_NumberFollowsType ==
    (lastRun.op \in {"create", "bulk_weekdays", "bulk_ranges", "save"} /\ lastRun.mutated) =>
        \A i \in 1..Len(lastRun.wrote.xlsx.rows) :
            lastRun.wrote.xlsx.rows[i].VehicleNum
                = WantedNumber(lastRun.wrote.xlsx.rows[i].Type)

\* The columns of a record other than its id.
Fields(r) == [r EXCEPT !.UniqueID = NaNId]

\* The records of df that the editor did not remove, in order.
NotRemoved(df, removed) ==
    SelectRows(df, [i \in 1..Len(df) |-> df[i].UniqueID \notin removed])

\* C23: an editor save through a filtered view changes only records of the
\* view.  The table saved holds, in order, the records of the session's
\* table whose ids were not removed in the editor, then the rows added; each
\* of them that the view did not show, or that was not edited, has all the
\* field values it had; and when no row was added or removed every record
\* has the id it had.
C23_SaveThroughView ==
    [][LET s == lastRun'.s
           info == lastRun'.info
           old == edited[s].df
           new == edited'[s].df
           kept == NotRemoved(old, info.removed)
       IN (lastRun'.op = "save" /\ lastRun'.mutated)
          => /\ new = lastRun'.wrote.xlsx.rows
             /\ info.removed \subseteq Elems(Ids(info.view))
             /\ Len(new) = Len(kept) + info.added
             /\ \A k \in 1..Len(kept) :
                   (kept[k].UniqueID \notin Elems(Ids(info.view))
                       \/ kept[k].UniqueID # info.edit_id)
                   => Fields(new[k]) = Fields(kept[k])
             /\ (info.removed = {} /\ info.added = 0)
                   => Ids(new) = Ids(old)]_vars

\* A save through a view that shows two of the three records, one of them
\* removed in the editor and the other edited: the table saved holds two
\* records, the first the one the view did not show.
C23_Witness ==
    /\ lastRun.op = "save" /\ lastRun.mutated
    /\ lastRun.info.rows_before = 3
    /\ Len(lastRun.info.view) = 2
    /\ lastRun.info.removed = {2}
    /\ lastRun.info.edit_id = 1
    /\ lastRun.info.added = 0
    /\ Len(LastFile.rows) = 2
    /\ LastFile.rows[1].Type = TypeTruck
    /\ LastFile.rows[2].Type = TypeTruck

====
